---------------------------- MODULE Spec2Model ----------------------------
(***************************************************************************)
(* A model of the two algorithms of the renderer:                          *)
(*                                                                         *)
(*   - LveAppBase::sierpinski (src/lve_app_base.cpp), the recursive        *)
(*     triangle generator, as a call-stack machine and as a recursive      *)
(*     operator;                                                           *)
(*   - UnitSystem::update and UnitSystem::render                           *)
(*     (src/src/systems/unit_system.cpp), the per-frame light pass and     *)
(*     the distance-sorted draw pass.                                      *)
(*                                                                         *)
(* Coordinates are integers.  For the generator one unit is                *)
(* 0.5 / 2^MaxDepth, so that every midpoint 0.5f * (a + b) taken within    *)
(* MaxDepth levels is an integer and the float arithmetic of the source is *)
(* exact on the inputs enumerated here.                                    *)
(***************************************************************************)
EXTENDS Integers, Sequences, FiniteSets

VARIABLES
    vertices,       \* std::vector<LveModel::Vertex> &vertices
    stack,          \* the activation records of sierpinski, innermost last
    args,           \* the arguments of the outermost call (and the list it was given)
    status,         \* "idle" | "running" | "returned" | "aborted"
    splits,         \* the triangles whose midpoints were computed (history)
    gameObjects,    \* frameInfo.gameObjects, in iteration order
    camera,         \* frameInfo.camera.getPosition()
    ubo,            \* GlobalUbo: pointLights (the indices written) and numLights
    commandBuffer,  \* the draws render recorded into frameInfo.commandBuffer
    frameTime,      \* frameInfo.frameTime of the last update, in units of 2 * pi seconds
    lastOp          \* the UnitSystem method that ran last

vars == <<vertices, stack, args, status, splits,
          gameObjects, camera, ubo, commandBuffer, frameTime, lastOp>>

sierpinskiVars == <<vertices, stack, args, splits>>
unitVars == <<gameObjects, camera, ubo, commandBuffer, frameTime, lastOp>>

----------------------------------------------------------------------------
(* Bounds of the model *)

MaxDepth == 2       \* largest depth passed to sierpinski
NegDepths == 2      \* depths down to -NegDepths are passed too
MaxPrefix == 1      \* vertices already in the list when sierpinski is called
MaxObjects == 3     \* game objects of a small scene
MaxExcess == 1      \* a large scene holds up to MAX_LIGHTS + MaxExcess lights
MaxFrameTime == 1   \* frame times 0 .. MaxFrameTime

Grid == 2 ^ MaxDepth

----------------------------------------------------------------------------
(* LveAppBase::sierpinski *)

Red == <<1, 0, 0>>
Green == <<0, 1, 0>>
Blue == <<0, 0, 1>>

Vertex(p, c) == [position |-> p, color |-> c]

\* The corner points the calls are made with: the triangle of loadModels,
\* {-0.5, 0.5}, {0.5, 0.5}, {0.0, -0.5}, and a point on its upper edge, which
\* makes collinear and coincident corners possible.
Corners == { <<0 - Grid, Grid>>, <<Grid, Grid>>, <<0, 0 - Grid>>, <<0, Grid>> }

Depths == (0 - NegDepths) .. MaxDepth

Filler == Vertex(<<0, 0>>, Red)
Prefixes == { [i \in 1..n |-> Filler] : n \in 0..MaxPrefix }

\* 0.5f * (a + b)
Midpoint(a, b) == << (a[1] + b[1]) \div 2, (a[2] + b[2]) \div 2 >>

\* if (depth <= 0)
IsBaseCaseNoNegative(depth) == depth = 0
IsBaseCaseOffByOne(depth) == depth <= 0 - 1
IsBaseCase(depth) == depth <= 0

\* depth - 1, the depth of each recursive call
ChildDepthNotDecremented(depth) == depth
ChildDepth(depth) == depth - 1

\* the three push_back calls of the base case
BaseVerticesLeftFirst(left, right, top) ==
    << Vertex(left, Blue), Vertex(right, Green), Vertex(top, Red) >>
BaseVertices(left, right, top) ==
    << Vertex(top, Red), Vertex(right, Green), Vertex(left, Blue) >>

\* the corners <<left, right, top>> of the k-th recursive call
SubTriangleFull(k, left, right, top) ==
    LET leftTop == Midpoint(left, top)
        rightTop == Midpoint(right, top)
        leftRight == Midpoint(left, right)
    IN  CASE k = 1 -> <<left, leftRight, leftTop>>
          [] k = 2 -> <<leftTop, rightTop, leftRight>>
          [] k = 3 -> <<leftTop, rightTop, top>>
SubTriangle(k, left, right, top) ==
    LET leftTop == Midpoint(left, top)
        rightTop == Midpoint(right, top)
        leftRight == Midpoint(left, right)
    IN  CASE k = 1 -> <<left, leftRight, leftTop>>
          [] k = 2 -> <<leftRight, right, rightTop>>
          [] k = 3 -> <<leftTop, rightTop, top>>

\* The function as the code computes it: the list is threaded through the
\* three recursive calls.
RECURSIVE Sierpinski(_, _, _, _, _)
Sierpinski(vs, depth, left, right, top) ==
    IF IsBaseCase(depth)
    THEN vs \o BaseVertices(left, right, top)
    ELSE LET t1 == SubTriangle(1, left, right, top)
             t2 == SubTriangle(2, left, right, top)
             t3 == SubTriangle(3, left, right, top)
             v1 == Sierpinski(vs, ChildDepth(depth), t1[1], t1[2], t1[3])
             v2 == Sierpinski(v1, ChildDepth(depth), t2[1], t2[2], t2[3])
         IN  Sierpinski(v2, ChildDepth(depth), t3[1], t3[2], t3[3])

\* An activation record: the parameters and the number of recursive calls
\* this activation has made so far.
Frame(depth, left, right, top) ==
    [depth |-> depth, left |-> left, right |-> right, top |-> top, made |-> 0]

Top == stack[Len(stack)]
Pop == SubSeq(stack, 1, Len(stack) - 1)

NoCall == [depth |-> 0, left |-> <<0, 0>>, right |-> <<0, 0>>, top |-> <<0, 0>>,
           given |-> <<>>]

\* A caller calls sierpinski(vertices, depth, left, right, top).
SierpinskiCall(given, depth, left, right, top) ==
    /\ status = "idle"
    /\ vertices' = given
    /\ args' = [depth |-> depth, left |-> left, right |-> right, top |-> top,
                given |-> given]
    /\ stack' = << Frame(depth, left, right, top) >>
    /\ status' = "running"
    /\ splits' = {}
    /\ UNCHANGED unitVars

\* loadModels: sierpinski(vertices, 1, {-0.5f, 0.5f}, {0.5f, 0.5f}, {0.0f, -0.5f})
\* on an empty list.
LoadModels ==
    SierpinskiCall(<<>>, 1, <<0 - Grid, Grid>>, <<Grid, Grid>>, <<0, 0 - Grid>>)

\* depth <= 0: the three vertices are appended and the call returns.
BaseCase ==
    /\ status = "running"
    /\ stack # <<>>
    /\ Top.made = 0
    /\ IsBaseCase(Top.depth)
    /\ vertices' = vertices \o BaseVertices(Top.left, Top.right, Top.top)
    /\ stack' = Pop
    /\ status' = IF Len(stack) = 1 THEN "returned" ELSE "running"
    /\ UNCHANGED <<args, splits>>
    /\ UNCHANGED unitVars

\* depth > 0: the next of the three recursive calls is made.
Recurse ==
    /\ status = "running"
    /\ stack # <<>>
    /\ ~IsBaseCase(Top.depth)
    /\ Top.made < 3
    /\ LET k == Top.made + 1
           t == SubTriangle(k, Top.left, Top.right, Top.top)
       IN  stack' = Append([stack EXCEPT ![Len(stack)].made = k],
                           Frame(ChildDepth(Top.depth), t[1], t[2], t[3]))
    /\ splits' = splits \cup { <<Top.left, Top.right, Top.top>> }
    /\ UNCHANGED <<vertices, args, status>>
    /\ UNCHANGED unitVars

\* The third recursive call has returned: so does this activation.
Return ==
    /\ status = "running"
    /\ stack # <<>>
    /\ ~IsBaseCase(Top.depth)
    /\ Top.made = 3
    /\ stack' = Pop
    /\ status' = IF Len(stack) = 1 THEN "returned" ELSE "running"
    /\ UNCHANGED <<vertices, args, splits>>
    /\ UNCHANGED unitVars

SierpinskiStep == BaseCase \/ Recurse \/ Return

InitUnitIdle ==
    /\ gameObjects = <<>>
    /\ camera = <<0, 0, 0>>
    /\ ubo = [pointLights |-> <<>>, numLights |-> 0]
    /\ commandBuffer = <<>>
    /\ frameTime = 0
    /\ lastOp = "none"

InitSierpinski ==
    /\ vertices = <<>>
    /\ stack = <<>>
    /\ args = NoCall
    /\ status = "idle"
    /\ splits = {}
    /\ InitUnitIdle

NextSierpinski ==
    \/ \E given \in Prefixes, depth \in Depths, left, right, top \in Corners :
           SierpinskiCall(given, depth, left, right, top)
    \/ LoadModels
    \/ BaseCase
    \/ Recurse
    \/ Return

SpecSierpinski == InitSierpinski /\ [][NextSierpinski]_vars

\* A call that has begun runs on: the function is sequential code.
SpecSierpinskiFair == SpecSierpinski /\ WF_vars(SierpinskiStep)

----------------------------------------------------------------------------
(* Properties of sierpinski *)

\* What the outermost call has appended to the list it was given.
Appended == SubSeq(vertices, Len(args.given) + 1, Len(vertices))

\* The triangles a renderer reads from a vertex list: consecutive triples,
\* each as the set of its corner positions.
Triangles(vs) ==
    { { vs[3 * k + 1].position, vs[3 * k + 2].position, vs[3 * k + 3].position } :
        k \in 0 .. (Len(vs) \div 3) - 1 }

\* The central triangle (leftTop, rightTop, leftRight) of <<left, right, top>>.
Central(t) == { Midpoint(t[1], t[3]), Midpoint(t[2], t[3]), Midpoint(t[1], t[2]) }

Collinear(a, b, c) ==
    (b[1] - a[1]) * (c[2] - a[2]) = (b[2] - a[2]) * (c[1] - a[1])

\* C1: a call with depth >= 0 on an empty list leaves exactly 3 * 3^depth
\* vertices in it.
C1_VertexCount ==
    (status = "returned" /\ args.depth >= 0 /\ args.given = <<>>)
        => Len(vertices) = 3 * (3 ^ args.depth)

C1_Witness ==
    /\ status = "returned"
    /\ args.depth >= 2
    /\ args.given = <<>>
    /\ Len(vertices) >= 27

\* C6: a call with depth = 0 appends (top, red), (right, green), (left, blue),
\* in this order and with the corners unchanged, after the vertices the list
\* already held, which stay as they were.
C6_BaseCaseVertices ==
    /\ (status = "returned" /\ args.depth = 0)
          => vertices = args.given \o << [position |-> args.top, color |-> <<1, 0, 0>>],
                                         [position |-> args.right, color |-> <<0, 1, 0>>],
                                         [position |-> args.left, color |-> <<0, 0, 1>>] >>
    /\ (status \in {"running", "returned"} /\ args.depth = 0)
          => /\ Len(vertices) >= Len(args.given)
             /\ SubSeq(vertices, 1, Len(args.given)) = args.given

C6_Witness ==
    /\ status = "returned"
    /\ args.depth = 0
    /\ args.given # <<>>
    /\ args.left # args.right
    /\ args.right # args.top
    /\ Len(vertices) = Len(args.given) + 3

\* C7: a call with depth >= 0 terminates: every recursive call is made with
\* depth - 1, the nesting of activations never exceeds depth + 1, and a call
\* that has begun returns.
C7_Terminates ==
    /\ [][ (stack # <<>> /\ Len(stack') = Len(stack) + 1)
              => stack'[Len(stack')].depth = stack[Len(stack)].depth - 1 ]_vars
    /\ []((status = "running" /\ args.depth >= 0) => Len(stack) <= args.depth + 1)
    /\ []((status = "running" /\ args.depth >= 0) => <>(status = "returned"))

C7_Witness ==
    /\ status = "running"
    /\ args.depth >= 2
    /\ Len(stack) = args.depth + 1
    /\ stack[Len(stack)].depth = 0

\* C8 as stated: a call with depth < 0 never takes the base case (it appends
\* nothing) and never returns.
C8_NegativeDepthNeverStops ==
    (status \in {"running", "returned"} /\ args.depth < 0)
        => (status = "running" /\ vertices = args.given)

\* C8, amended: a call with depth < 0 takes the base case at once, as for
\* depth 0: it makes no recursive call, appends the three corner vertices
\* (top, right, left) and returns.
C8_NegativeDepthIsBaseCase ==
    (status \in {"running", "returned"} /\ args.depth < 0)
        => /\ Len(stack) <= 1
           /\ splits = {}
           /\ status = "running" => (stack # <<>> /\ vertices = args.given)
           /\ status = "returned"
                 => vertices = args.given \o << [position |-> args.top, color |-> <<1, 0, 0>>],
                                                [position |-> args.right, color |-> <<0, 1, 0>>],
                                                [position |-> args.left, color |-> <<0, 0, 1>>] >>

C8_Witness ==
    /\ status = "returned"
    /\ args.depth < 0 - 1
    /\ Len(vertices) = Len(args.given) + 3

\* The vertex sequence of the code for a call on an empty list.
SequenceOf(depth, left, right, top) == Sierpinski(<<>>, depth, left, right, top)

\* The first half of C9: for depth >= 1 the appended sequence is the
\* concatenation of the sequences of the three corner sub-triangles.
ConcatenationOfThree ==
    LET leftTop == Midpoint(args.left, args.top)
        rightTop == Midpoint(args.right, args.top)
        leftRight == Midpoint(args.left, args.right)
    IN  Appended = SequenceOf(args.depth - 1, args.left, leftRight, leftTop)
                   \o SequenceOf(args.depth - 1, leftRight, args.right, rightTop)
                   \o SequenceOf(args.depth - 1, leftTop, rightTop, args.top)

\* The second half: no emitted triangle is the central triangle of a triangle
\* that was subdivided.
NoCentralTriangle == \A t \in splits : Central(t) \notin Triangles(Appended)

\* C9 as stated: for depth >= 1 the appended sequence is that concatenation,
\* and the central triangle is never emitted, whatever the corners.
C9_ConcatenationNoCentral ==
    (status = "returned" /\ args.depth >= 1)
        => (ConcatenationOfThree /\ NoCentralTriangle)

\* C9, amended: for depth >= 1 the appended sequence is that concatenation;
\* when left, right and top are not collinear (and the midpoints are exact, as
\* they are here), the central triangle is never emitted.
C9_ConcatenationNoCentralUnlessCollinear ==
    (status = "returned" /\ args.depth >= 1)
        => /\ ConcatenationOfThree
           /\ ~Collinear(args.left, args.right, args.top) => NoCentralTriangle

C9_Witness ==
    /\ status = "returned"
    /\ args.depth >= 2
    /\ ~Collinear(args.left, args.right, args.top)
    /\ Cardinality(splits) >= 4
    /\ Len(Appended) >= 27

----------------------------------------------------------------------------
(* UnitSystem::update and UnitSystem::render *)

MAX_LIGHTS == 100

\* std::unique_ptr<PointLightComponent>: nullptr, or a component
Null == [isNull |-> TRUE, lightIntensity |-> 0]

\* A game object: its id, its pointLight component (Null when it has none),
\* transform.translation, transform.scale.x and color.
GameObject(id, pointLight, translation) ==
    [id |-> id, pointLight |-> pointLight, translation |-> translation,
     scale |-> 1, color |-> id]

PointLightComponent == [isNull |-> FALSE, lightIntensity |-> 1]

\* glm::rotate(glm::mat4(1.f), 0.5f * frameTime, {-.5f, -1.f, 0.f}) applied to
\* (v, 1).  One unit of frameTime is 2 * pi seconds, so the angle is a
\* multiple of pi: the identity for an even frameTime and, for an odd one, the
\* half turn about the normalised axis n, 2 * n * n^T - I, which is
\*     | -3/5  4/5   0 |
\*     |  4/5  3/5   0 |
\*     |   0    0   -1 |
\* The translations enumerated below stay integers under it.
RotateLightNotApplied(ft, v) == v
RotateLight(ft, v) ==
    IF ft % 2 = 0
    THEN v
    ELSE << (4 * v[2] - 3 * v[1]) \div 5, (4 * v[1] + 3 * v[2]) \div 5, 0 - v[3] >>

\* assert(lightIndex < MAX_LIGHTS && "Point lights exceed maximum specified")
AssertCompiledOut(lightIndex) == TRUE
AssertLightIndex(lightIndex) == lightIndex < MAX_LIGHTS

\* the entry of ubo.pointLights written for a light
UboPointLight(obj) ==
    [position |-> <<obj.translation[1], obj.translation[2], obj.translation[3], 1>>,
     color |-> <<obj.color, obj.pointLight.lightIntensity>>]

\* ubo.pointLights[lightIndex] = ...: the write of one array element.  The
\* array is held as the sequence of its elements written so far, element
\* lightIndex in place lightIndex + 1; update writes the indices in order.
WriteAt(pointLights, lightIndex, entry) ==
    IF lightIndex < Len(pointLights)
    THEN [pointLights EXCEPT ![lightIndex + 1] = entry]
    ELSE Append(pointLights, entry)

\* One iteration of the loop of update, on the i-th object visited.  The
\* state of the loop holds the objects, the array, lightIndex and whether the
\* assertion has failed (where the pass stops).
UpdateIteration(loop, i, ft) ==
    IF loop.failed \/ loop.objs[i].pointLight.isNull
    THEN loop
    ELSE IF ~AssertLightIndex(loop.lightIndex)
    THEN [loop EXCEPT !.failed = TRUE]
    ELSE LET moved == [loop.objs[i] EXCEPT !.translation = RotateLight(ft, @)]
         IN  [objs |-> [loop.objs EXCEPT ![i] = moved],
              pointLights |-> WriteAt(loop.pointLights, loop.lightIndex,
                                      UboPointLight(moved)),
              lightIndex |-> loop.lightIndex + 1,
              failed |-> FALSE]

\* The iterations lo .. hi of the loop of update, in order: those up to the
\* middle, then, unless the assertion has stopped the pass, the rest.  (The
\* range is halved so that the evaluation nests to a logarithmic depth.)
RECURSIVE UpdateLoop(_, _, _, _)
UpdateLoop(loop, lo, hi, ft) ==
    IF lo > hi THEN loop
    ELSE IF lo = hi THEN UpdateIteration(loop, lo, ft)
    ELSE LET mid == (lo + hi) \div 2
             first == UpdateLoop(loop, lo, mid, ft)
         IN  IF first.failed THEN first ELSE UpdateLoop(first, mid + 1, hi, ft)

\* UnitSystem::update(frameInfo, ubo)
Update(ft) ==
    /\ status = "idle"
    /\ LET r == UpdateLoop([objs |-> gameObjects, pointLights |-> ubo.pointLights,
                             lightIndex |-> 0, failed |-> FALSE],
                            1, Len(gameObjects), ft)
       IN  /\ gameObjects' = r.objs
           /\ ubo' = [pointLights |-> r.pointLights,
                      numLights |-> IF r.failed THEN ubo.numLights ELSE r.lightIndex]
           /\ status' = IF r.failed THEN "aborted" ELSE "idle"
    /\ frameTime' = ft
    /\ lastOp' = "update"
    /\ UNCHANGED <<camera, commandBuffer>>
    /\ UNCHANGED sierpinskiVars

\* glm::dot(offset, offset) with offset = camera position - translation
DisSquared(cam, t) ==
    (cam[1] - t[1]) * (cam[1] - t[1]) + (cam[2] - t[2]) * (cam[2] - t[2])
        + (cam[3] - t[3]) * (cam[3] - t[3])

\* std::map<float, id_t>: the entries in ascending order of their keys
HasKey(sorted, key) == \E j \in 1..Len(sorted) : sorted[j].key = key
PlaceOf(sorted, key) == Cardinality({ j \in 1..Len(sorted) : sorted[j].key < key }) + 1

\* sorted[disSquared] = obj.getId()
SortedPutFirstWins(sorted, disSquared, id) ==
    LET at == PlaceOf(sorted, disSquared)
    IN  IF HasKey(sorted, disSquared)
        THEN sorted
        ELSE SubSeq(sorted, 1, at - 1) \o << [key |-> disSquared, id |-> id] >>
                 \o SubSeq(sorted, at, Len(sorted))
SortedPut(sorted, disSquared, id) ==
    LET at == PlaceOf(sorted, disSquared)
    IN  IF HasKey(sorted, disSquared)
        THEN [sorted EXCEPT ![at].id = id]
        ELSE SubSeq(sorted, 1, at - 1) \o << [key |-> disSquared, id |-> id] >>
                 \o SubSeq(sorted, at, Len(sorted))

\* one iteration of the first loop of render, on the i-th object visited
CollectIteration(objs, cam, sorted, i) ==
    IF objs[i].pointLight.isNull
    THEN sorted
    ELSE SortedPut(sorted, DisSquared(cam, objs[i].translation), objs[i].id)

\* The iterations lo .. hi of the first loop of render, in order: those up to
\* the middle, then the rest.  (The map of the first half is evaluated before
\* the second half begins, which the test on its size sees to.)
RECURSIVE CollectLoop(_, _, _, _, _)
CollectLoop(objs, cam, sorted, lo, hi) ==
    IF lo > hi THEN sorted
    ELSE IF lo = hi THEN CollectIteration(objs, cam, sorted, lo)
    ELSE LET mid == (lo + hi) \div 2
             first == CollectLoop(objs, cam, sorted, lo, mid)
         IN  IF Len(first) >= 0
             THEN CollectLoop(objs, cam, first, mid + 1, hi)
             ELSE first

\* frameInfo.gameObjects.at(id)
ObjectAt(objs, id) == objs[CHOOSE i \in 1..Len(objs) : objs[i].id = id]

\* the push constants and the draw recorded for one light
DrawOf(obj) ==
    [position |-> <<obj.translation[1], obj.translation[2], obj.translation[3], 1>>,
     color |-> <<obj.color, obj.pointLight.lightIntensity>>,
     radius |-> obj.scale,
     object |-> obj.id,
     vertexCount |-> 6]

\* the entry the iteration from sorted.rbegin() to sorted.rend() visits in
\* place n
EntryVisitedForward(sorted, n) == sorted[n]
EntryVisited(sorted, n) == sorted[Len(sorted) - n + 1]

\* the second loop of render: one draw for each entry of the map
DrawLoop(objs, sorted) ==
    [n \in 1 .. Len(sorted) |-> DrawOf(ObjectAt(objs, EntryVisited(sorted, n).id))]

\* UnitSystem::render(frameInfo)
Render ==
    /\ status = "idle"
    /\ LET sorted == CollectLoop(gameObjects, camera, <<>>, 1, Len(gameObjects))
       IN  commandBuffer' = DrawLoop(gameObjects, sorted)
    /\ lastOp' = "render"
    /\ UNCHANGED <<gameObjects, camera, ubo, frameTime, status>>
    /\ UNCHANGED sierpinskiVars

\* The scenes.  Objects are visited in the order of the sequence; ids descend
\* along it.
Translations == { <<5, 0, 0>>, <<10, 0, 0>>, <<0, 5, 0>> }
Cameras == { <<0, 0, 0>>, <<5, 0, 0>> }
FrameTimes == 0 .. MaxFrameTime

SmallScenes ==
    UNION { { [i \in 1..n |-> GameObject(n - i, light[i], where[i])] :
                light \in [1..n -> {Null, PointLightComponent}],
                where \in [1..n -> Translations] } : n \in 0..MaxObjects }

\* n lights on a line, all at different distances from either camera, or all
\* at one place
LargeScenes ==
    { [i \in 1..n |-> GameObject(n - i, PointLightComponent,
                                 IF spread THEN <<5 * i, 0, 0>> ELSE <<5, 0, 0>>)] :
        n \in (MAX_LIGHTS - 1) .. (MAX_LIGHTS + MaxExcess), spread \in BOOLEAN }

InitUnitSystem ==
    /\ vertices = <<>>
    /\ stack = <<>>
    /\ args = NoCall
    /\ status = "idle"
    /\ splits = {}
    /\ gameObjects \in SmallScenes \cup LargeScenes
    /\ camera \in Cameras
    /\ ubo = [pointLights |-> <<>>, numLights |-> 0]
    /\ commandBuffer = <<>>
    /\ frameTime = 0
    /\ lastOp = "none"

NextUnitSystem ==
    \/ \E ft \in FrameTimes : Update(ft)
    \/ Render

SpecUnitSystem == InitUnitSystem /\ [][NextUnitSystem]_vars

----------------------------------------------------------------------------
(* Properties of UnitSystem *)

\* the places, in iteration order, of the objects with a pointLight component
Lights(objs) == { i \in 1..Len(objs) : ~objs[i].pointLight.isNull }

\* the squared distance from the camera of the position a draw was pushed with
DrawDistance(draw) ==
    (camera[1] - draw.position[1]) * (camera[1] - draw.position[1])
        + (camera[2] - draw.position[2]) * (camera[2] - draw.position[2])
        + (camera[3] - draw.position[3]) * (camera[3] - draw.position[3])

\* the squared distance from the camera of the i-th object
ObjectDistance(i) ==
    (camera[1] - gameObjects[i].translation[1]) * (camera[1] - gameObjects[i].translation[1])
        + (camera[2] - gameObjects[i].translation[2]) * (camera[2] - gameObjects[i].translation[2])
        + (camera[3] - gameObjects[i].translation[3]) * (camera[3] - gameObjects[i].translation[3])

\* C2: render draws the lights farthest first: a light drawn earlier is never
\* nearer to the camera than one drawn later.
C2_FarthestFirst ==
    \A m, n \in 1..Len(commandBuffer) :
        m < n => DrawDistance(commandBuffer[m]) >= DrawDistance(commandBuffer[n])

C2_Witness ==
    /\ lastOp = "render"
    /\ Len(commandBuffer) = 3
    /\ DrawDistance(commandBuffer[1]) = 50
    /\ DrawDistance(commandBuffer[2]) = 25
    /\ DrawDistance(commandBuffer[3]) = 0

\* C3: of the point lights at one squared distance from the camera render
\* draws exactly one, the one visited last in the iteration of gameObjects; so
\* the number of draws is the number of distinct squared distances.
C3_TiesKeepLastVisited ==
    lastOp = "render" =>
        LET lights == Lights(gameObjects)
        IN  /\ Len(commandBuffer) = Cardinality({ ObjectDistance(i) : i \in lights })
            /\ \A i \in lights :
                  LET tied == { j \in lights : ObjectDistance(j) = ObjectDistance(i) }
                      last == CHOOSE j \in tied : \A other \in tied : other <= j
                      drawn == { n \in 1..Len(commandBuffer) :
                                   \E j \in tied : commandBuffer[n].object = gameObjects[j].id }
                  IN  /\ Cardinality(drawn) = 1
                      /\ \A n \in drawn : commandBuffer[n].object = gameObjects[last].id

C3_Witness ==
    /\ lastOp = "render"
    /\ Cardinality(Lights(gameObjects)) = 3
    /\ Len(commandBuffer) = 2
    /\ \E i, j \in Lights(gameObjects) :
          /\ i < j
          /\ ObjectDistance(i) = ObjectDistance(j)
          /\ gameObjects[i].translation # gameObjects[j].translation

\* C4: neither the draws render records nor ubo.numLights ever exceed
\* MAX_LIGHTS.
C4_LightRecordsCapped ==
    /\ Len(commandBuffer) <= MAX_LIGHTS
    /\ ubo.numLights <= MAX_LIGHTS

\* C5: with more than MAX_LIGHTS point lights the assertion of update fails at
\* light MAX_LIGHTS + 1 and the pass stops there: no element of ubo.pointLights
\* at an index >= MAX_LIGHTS is ever written and ubo.numLights is never set
\* above MAX_LIGHTS.
C5_OverflowAsserts ==
    /\ Len(ubo.pointLights) <= MAX_LIGHTS
    /\ ubo.numLights <= MAX_LIGHTS
    /\ (lastOp = "update" /\ Cardinality(Lights(gameObjects)) > MAX_LIGHTS)
          => (status = "aborted" /\ Len(ubo.pointLights) = MAX_LIGHTS)
    /\ status = "aborted"
          => (lastOp = "update" /\ Cardinality(Lights(gameObjects)) > MAX_LIGHTS)

C5_Witness ==
    /\ status = "aborted"
    /\ Cardinality(Lights(gameObjects)) = MAX_LIGHTS + 1
    /\ Len(ubo.pointLights) = MAX_LIGHTS
    /\ ubo.numLights = 0

\* The rotation of v about the axis (-0.5, -1, 0) by the angle 0.5 * ft, ft in
\* units of 2 * pi seconds.
RotatedAboutAxis(ft, v) ==
    IF ft % 2 = 0
    THEN v
    ELSE << (4 * v[2] - 3 * v[1]) \div 5, (4 * v[1] + 3 * v[2]) \div 5, 0 - v[3] >>

\* the number of lights visited before the i-th object
LightsBefore(objs, i) == Cardinality({ j \in Lights(objs) : j < i })

\* C10 as stated: the pass that sorts the lights and emits the draws (render)
\* also rotates every point light by the angle of frameTime and counts the
\* lights into the ubo.
C10_RenderAlsoMutates ==
    [][ lastOp' = "render"
          => /\ Len(gameObjects') = Len(gameObjects)
             /\ \A i \in 1..Len(gameObjects) :
                   gameObjects'[i].translation =
                       IF i \in Lights(gameObjects)
                       THEN RotatedAboutAxis(frameTime', gameObjects[i].translation)
                       ELSE gameObjects[i].translation
             /\ ubo'.numLights = Cardinality(Lights(gameObjects)) ]_vars

\* C10, amended: they are two passes.  render sorts the lights and records the
\* draws and changes neither an object nor the ubo; update rotates each point
\* light it reaches about the fixed axis by the angle of frameTime and writes
\* it into ubo.pointLights, below MAX_LIGHTS, and records no draw.  Neither
\* changes an object without a pointLight component.
C10_SeparatePasses ==
    [][ /\ lastOp' = "render" => (gameObjects' = gameObjects /\ ubo' = ubo)
        /\ lastOp' = "update"
              => /\ commandBuffer' = commandBuffer
                 /\ Len(gameObjects') = Len(gameObjects)
                 /\ Len(ubo'.pointLights) <= MAX_LIGHTS
                 /\ \A i \in 1..Len(gameObjects) :
                       LET obj == gameObjects[i]
                           at == LightsBefore(gameObjects, i)
                           moved == RotatedAboutAxis(frameTime', obj.translation)
                       IN  IF i \in Lights(gameObjects) /\ at < MAX_LIGHTS
                           THEN /\ gameObjects'[i] = [obj EXCEPT !.translation = moved]
                                /\ ubo'.pointLights[at + 1].position
                                      = <<moved[1], moved[2], moved[3], 1>>
                                /\ ubo'.pointLights[at + 1].color
                                      = <<obj.color, obj.pointLight.lightIntensity>>
                           ELSE gameObjects'[i] = obj ]_vars

C10_Witness ==
    /\ lastOp = "update"
    /\ frameTime = 1
    /\ Len(commandBuffer) >= 2
    /\ ubo.numLights >= 2
    /\ \E i \in 1..Len(gameObjects) : gameObjects[i].pointLight.isNull
    /\ \E i \in Lights(gameObjects) :
          /\ gameObjects[i].translation = <<0 - 3, 4, 0>>
          /\ \E n \in 1..Len(commandBuffer) :
                /\ commandBuffer[n].object = gameObjects[i].id
                /\ commandBuffer[n].position = <<5, 0, 0, 1>>

=============================================================================
